---- MODULE Spec2Model ----
(***************************************************************************)
(* Model of the YouTube summarizer bot: the transcript cache               *)
(* (services/cache.py), the per-chat session store (services/session.py),  *)
(* the retry loop of the llm calls (services/llm.py), the handlers of      *)
(* links, questions and /reset (handlers/) and the splitting of long       *)
(* messages (utils/telegram_helpers.py).                                   *)
(*                                                                         *)
(* time.time() is the variable now (whole seconds); one call of a store    *)
(* operation reads the clock once.  The dict TranscriptCache._store is a   *)
(* sequence of entries in insertion order (Python dicts iterate in         *)
(* insertion order, which decides ties of min()).  The dict _sessions is a *)
(* function whose domain is the set of stored chat ids.                    *)
(***************************************************************************)
EXTENDS Integers, Sequences, FiniteSets, TLC

VARIABLES now, store, sessions, appended, last, nops, ask, tasks, msg

vars == <<now, store, sessions, appended, last, nops, ask, tasks, msg>>

(***************************************************************************)
(* Program constants.                                                      *)
(***************************************************************************)
_TTL_SECONDS == 24 * 60 * 60

_MAX_ENTRIES == 200

_SESSION_TTL_SECONDS == 2 * 60 * 60

_MAX_HISTORY_MESSAGES == 20

(* Python's None, for the Optional[str] fields; for video_id, whose values *)
(* are numbers here, None is NoVideo.                                      *)
None == "None"

NoVideo == 0

(***************************************************************************)
(* Bounds of the model.                                                    *)
(***************************************************************************)
(* Cache calls, and session calls, per behaviour (the clock bounds the     *)
(* ticks).                                                                 *)
MaxOps == 3

MaxSessionOps == 3

(* Largest access_count a get is modelled for. *)
MaxAccess == 2

(* The cache starts empty, or full: holding the entries of _MAX_ENTRIES     *)
(* earlier set() calls made at time 0 for the ids 1.._MAX_ENTRIES.          *)
PrefillSizes == {0, _MAX_ENTRIES}

(* The video ids the modelled calls are made with: one id of the full      *)
(* cache and one id that is new to it.                                     *)
VideoIds == {1, _MAX_ENTRIES + 1}

(* The results of get_transcript: (transcript, language_code). *)
Fetched == {<<"", "hi">>, <<"t1", "en">>}

Summaries == {"s1", "s2"}

(* The instants at which calls are made: the start, an hour later, and the *)
(* cache TTL after each of the two.                                        *)
CacheTimes == {0, 60 * 60, _TTL_SECONDS, _TTL_SECONDS + 60 * 60}

(* The chats, and what the session calls are made with. *)
ChatIds == {1, 2}

(* (video_id, transcript, summary) of an update_video call. *)
Loads == {<<1, "t1", "s1">>, <<2, "", "s2">>}

Languages == {"English", "Hindi"}

(* (role, content) of an append_history call. *)
Turns == {<<"user", "q">>, <<"assistant", "a">>}

(* The session store starts empty, or with chat 1 holding the session left *)
(* by update_video and PrefillTurns append_history calls made at time 0.   *)
PrefillTurns == _MAX_HISTORY_MESSAGES - 1

(* The instants at which session calls are made: the start, an hour later, *)
(* and the session TTL after each of the two.                              *)
SessionTimes == {0, 60 * 60, _SESSION_TTL_SECONDS, _SESSION_TTL_SECONDS + 60 * 60}

(***************************************************************************)
(* The handler coroutines of bot.py: route_message runs handle_link or     *)
(* handle_question for each text message.                                  *)
(***************************************************************************)
(* The handler coroutines that can be in progress together. *)
Tasks == {1, 2}

(* A task that runs no handler; for a running handler the record holds the *)
(* message (kind, chat, vid, lang: the language the text asks for), the    *)
(* place the coroutine is at (pc), its locals (language, loading: whether  *)
(* loading_msg is set, cached, transcript, lang_code) and, for the         *)
(* properties, what it did: the get_transcript calls (fetches) and llm     *)
(* calls (gens) it made, whether the send of a status message failed       *)
(* (status_failed), whether an external call failed (ext_failed) and       *)
(* whether it stored its result in the session (updated).                  *)
NoTask ==
    [kind |-> "none", chat |-> 0, vid |-> NoVideo, lang |-> None, pc |-> "idle",
     language |-> None, loading |-> FALSE, cached |-> <<>>,
     transcript |-> None, lang_code |-> None,
     fetches |-> 0, gens |-> 0,
     status_failed |-> FALSE, ext_failed |-> FALSE, updated |-> FALSE]

(***************************************************************************)
(* utils/telegram_helpers.py: send_long_message and edit_or_send_long      *)
(*                                                                         *)
(* The helpers read of a text its length and its lines (text.split("\n")), *)
(* and of a line its length: a text is the sequence of the lengths of its  *)
(* lines, and a chunk is the sequence of the indices of the lines it is    *)
(* joined from with "\n".                                                  *)
(***************************************************************************)
MAX_MSG_LEN == 4000

(* The lines a text has at most, and the lengths a line can have. *)
MaxLines == 3

LineLens ==
    {0, 1, MAX_MSG_LEN \div 2 - 1, MAX_MSG_LEN \div 2, MAX_MSG_LEN, MAX_MSG_LEN + 1}

Texts == UNION {[1..n -> LineLens] : n \in 1..MaxLines}

Helpers == {"send_long_message", "edit_or_send_long"}

(* What the send of one message does: Telegram takes it with               *)
(* parse_mode=MARKDOWN, or refuses that and takes the plain text, or       *)
(* refuses both, and the second exception leaves the helper.               *)
Deliveries == {"markdown", "plain", "error"}

(* No helper is running; for a running helper the record holds the         *)
(* function (fn), its argument (text), the place it is at (pc), the index  *)
(* of the line the loop takes next (i), its locals chunks and current, the *)
(* index of the chunk it sends next (k), and the messages Telegram took    *)
(* (sent: edit or reply, the lines of the message, parse mode).            *)
NoMessage ==
    [fn |-> "none", text |-> <<>>, pc |-> "idle", i |-> 0, chunks |-> <<>>,
     current |-> <<>>, k |-> 0, sent |-> <<>>]

(***************************************************************************)
(* services/llm.py: _ask                                                   *)
(***************************************************************************)
_MODEL == "llama-3.3-70b-versatile"

_FALLBACK_MODEL == "llama-3.1-8b-instant"

models_to_try == <<_MODEL, _FALLBACK_MODEL>>

(* range(3): the attempts per model; time.sleep(15): the backoff. *)
Attempts == 3

BackoffSeconds == 15

(* What one _client.chat.completions.create call does: it answers ("ok"),  *)
(* or raises an error whose text names the tokens-per-day limit ("tpd"),   *)
(* a 429 / rate limit without naming that limit ("rate"), or neither       *)
(* ("other").                                                              *)
Outcomes == {"ok", "tpd", "rate", "other"}

(* _ask on entry: model indexes models_to_try, attempt is the loop         *)
(* variable, calls lists (model, outcome) of the backend calls made, slept *)
(* the sleeps done, error what was raised.                                 *)
AskEntered ==
    [pc |-> "calling", model |-> 1, attempt |-> 0, calls |-> <<>>,
     slept |-> <<>>, error |-> None]

(* The except branch that, out of retries on a rate limit, goes on to the  *)
(* next model instead of raising.                                          *)
_ask_after_call_escalating(a, outcome) ==
    LET c == [a EXCEPT !.calls = Append(a.calls, <<models_to_try[a.model], outcome>>)]
        next_model ==
            IF a.model < Len(models_to_try)
            THEN [c EXCEPT !.model = a.model + 1, !.attempt = 0]
            ELSE [c EXCEPT !.pc = "raised", !.error = "RuntimeError"]
    IN  IF outcome = "ok" THEN [c EXCEPT !.pc = "returned"]
        ELSE IF outcome = "tpd" THEN next_model
        ELSE IF outcome = "rate" /\ a.attempt < Attempts - 1
             THEN [c EXCEPT !.pc = "sleeping"]
        ELSE IF outcome = "rate" THEN next_model
        ELSE IF a.attempt = Attempts - 1
             THEN [c EXCEPT !.pc = "raised", !.error = outcome]
        ELSE [c EXCEPT !.attempt = a.attempt + 1]

(* The body of the attempt loop for one backend call with the given        *)
(* outcome: return, break to the next model (RuntimeError after the last), *)
(* sleep and continue, raise on the last attempt, or fall through to the   *)
(* next attempt.                                                           *)
(* The loop with range(4). *)
_ask_after_call_one_more(a, outcome) ==
    LET c == [a EXCEPT !.calls = Append(a.calls, <<models_to_try[a.model], outcome>>)]
    IN  IF outcome = "ok" THEN [c EXCEPT !.pc = "returned"]
        ELSE IF outcome = "tpd"
             THEN IF a.model < Len(models_to_try)
                  THEN [c EXCEPT !.model = a.model + 1, !.attempt = 0]
                  ELSE [c EXCEPT !.pc = "raised", !.error = "RuntimeError"]
        ELSE IF outcome = "rate" /\ a.attempt < Attempts
             THEN [c EXCEPT !.pc = "sleeping"]
        ELSE IF a.attempt = Attempts
             THEN [c EXCEPT !.pc = "raised", !.error = outcome]
        ELSE [c EXCEPT !.attempt = a.attempt + 1]

_ask_after_call(a, outcome) ==
    LET c == [a EXCEPT !.calls = Append(a.calls, <<models_to_try[a.model], outcome>>)]
    IN  IF outcome = "ok" THEN [c EXCEPT !.pc = "returned"]
        ELSE IF outcome = "tpd"
             THEN IF a.model < Len(models_to_try)
                  THEN [c EXCEPT !.model = a.model + 1, !.attempt = 0]
                  ELSE [c EXCEPT !.pc = "raised", !.error = "RuntimeError"]
        ELSE IF outcome = "rate" /\ a.attempt < Attempts - 1
             THEN [c EXCEPT !.pc = "sleeping"]
        ELSE IF a.attempt = Attempts - 1
             THEN [c EXCEPT !.pc = "raised", !.error = outcome]
        ELSE [c EXCEPT !.attempt = a.attempt + 1]

(* One backend call and the handling of its outcome. *)
AskCall(outcome) ==
    /\ ask.pc = "calling"
    /\ ask' = _ask_after_call(ask, outcome)
    /\ UNCHANGED <<now, store, sessions, appended, last, nops, tasks, msg>>

(* time.sleep(15) returns and the loop continues with the next attempt. *)
AskWake ==
    /\ ask.pc = "sleeping"
    /\ now' = now + BackoffSeconds
    /\ ask' = [ask EXCEPT !.pc = "calling", !.attempt = ask.attempt + 1,
                          !.slept = Append(ask.slept, BackoffSeconds)]
    /\ UNCHANGED <<store, sessions, appended, last, nops, tasks, msg>>

InitAsk ==
    /\ now = 0
    /\ store = <<>>
    /\ sessions = <<>>
    /\ appended = <<>>
    /\ last = [op |-> "init", arg |-> <<>>, seen |-> <<>>, ret |-> <<>>]
    /\ nops = 0
    /\ ask = AskEntered
    /\ tasks = [r \in Tasks |-> NoTask]
    /\ msg = NoMessage

NextAsk ==
    \/ \E outcome \in Outcomes : AskCall(outcome)
    \/ AskWake

SpecAsk == InitAsk /\ [][NextAsk]_vars

(* _ask runs on one thread from its call to its end: a backend call        *)
(* answers or raises, time.sleep returns, and the loop takes its next      *)
(* step.                                                                   *)
SpecAskFair == SpecAsk /\ WF_vars(NextAsk)

(***************************************************************************)
(* services/cache.py                                                       *)
(***************************************************************************)
(* CacheEntry(transcript, language_code) constructed at time t. *)
CacheEntry(vid, transcript, language_code, t) ==
    [vid |-> vid, transcript |-> transcript, language_code |-> language_code,
     summary |-> None, created_at |-> t, last_accessed |-> t, access_count |-> 0]

(* is_expired with the age taken from the last read instead of the creation. *)
is_expired_idle(e, t) == (t - e.last_accessed) > _TTL_SECONDS

(* CacheEntry.is_expired at time t. *)
is_expired(e, t) == (t - e.created_at) > _TTL_SECONDS

(* touch that forgets to count the access. *)
touch_no_count(e, t) == [e EXCEPT !.last_accessed = t]

(* CacheEntry.touch at time t. *)
touch(e, t) ==
    [e EXCEPT !.last_accessed = t, !.access_count = e.access_count + 1]

(* Keys of a store and the position of a key (0 when absent). *)
Keys(s) == {s[i].vid : i \in 1..Len(s)}

IndexOf(s, vid) ==
    IF vid \in Keys(s) THEN CHOOSE i \in 1..Len(s) : s[i].vid = vid ELSE 0

(* self._store[k], the entry stored under key k. *)
EntryOf(s, k) == s[IndexOf(s, k)]

(* del self._store[key] for the entry at position i. *)
DelAt(s, i) == [j \in 1..(Len(s) - 1) |-> IF j < i THEN s[j] ELSE s[j + 1]]

(* min() keyed on created_at instead of last_accessed. *)
LruIndex_by_created(s) ==
    CHOOSE i \in 1..Len(s) :
        /\ \A j \in 1..Len(s) : s[i].created_at <= s[j].created_at
        /\ \A j \in 1..(i - 1) : s[j].created_at > s[i].created_at

(* min(self._store, key=last_accessed): the first key, in insertion order, *)
(* of least last_accessed.                                                 *)
LruIndex(s) ==
    CHOOSE i \in 1..Len(s) :
        /\ \A j \in 1..Len(s) : s[i].last_accessed <= s[j].last_accessed
        /\ \A j \in 1..(i - 1) : s[j].last_accessed > s[i].last_accessed

(* _evict_if_needed that evicts only when over, not at, capacity. *)
evict_if_over(s, t) ==
    LET alive == SelectSeq(s, LAMBDA e : ~is_expired(e, t))
    IN  IF Len(alive) > _MAX_ENTRIES THEN DelAt(alive, LruIndex(alive)) ELSE alive

(* _evict_if_needed that tests the size before the sweep. *)
evict_at_size(s, t) ==
    LET alive == SelectSeq(s, LAMBDA e : ~is_expired(e, t))
    IN  IF Len(s) >= _MAX_ENTRIES /\ alive # <<>>
        THEN DelAt(alive, LruIndex(alive)) ELSE alive

(* TranscriptCache._evict_if_needed at time t. *)
_evict_if_needed(s, t) ==
    LET alive == SelectSeq(s, LAMBDA e : ~is_expired(e, t))
    IN  IF Len(alive) >= _MAX_ENTRIES THEN DelAt(alive, LruIndex(alive)) ELSE alive

(* self._store[video_id] = entry: an existing key keeps its position. *)
StoreAssign(s, e) ==
    IF e.vid \in Keys(s) THEN [s EXCEPT ![IndexOf(s, e.vid)] = e] ELSE Append(s, e)

(* set that carries the summary of the entry it replaces over. *)
set_store_keep_summary(s, vid, transcript, language_code, t) ==
    LET kept == _evict_if_needed(s, t)
        e == CacheEntry(vid, transcript, language_code, t)
    IN  IF vid \in Keys(kept)
        THEN StoreAssign(kept, [e EXCEPT !.summary = EntryOf(kept, vid).summary])
        ELSE StoreAssign(kept, e)

(* The store after TranscriptCache.set at time t. *)
set_store(s, vid, transcript, language_code, t) ==
    StoreAssign(_evict_if_needed(s, t), CacheEntry(vid, transcript, language_code, t))

(* The store after TranscriptCache.get at time t. *)
get_store(s, vid, t) ==
    LET i == IndexOf(s, vid)
    IN  IF i = 0 THEN s
        ELSE IF is_expired(s[i], t) THEN DelAt(s, i)
        ELSE [s EXCEPT ![i] = touch(s[i], t)]

(* get that never finds an entry. *)
get_result_miss(s, vid, t) == <<>>

(* What TranscriptCache.get returns at time t: <<>> for None, else <<entry>>. *)
get_result(s, vid, t) ==
    LET i == IndexOf(s, vid)
    IN  IF i = 0 \/ is_expired(s[i], t) THEN <<>> ELSE <<touch(s[i], t)>>

(* set_summary that creates the entry it does not find. *)
set_summary_upsert(s, vid, summary) ==
    LET i == IndexOf(s, vid)
    IN  IF i # 0 THEN [s EXCEPT ![i].summary = summary]
        ELSE Append(s, [CacheEntry(vid, "", "en", 0) EXCEPT !.summary = summary])

(* The store after TranscriptCache.set_summary. *)
set_summary_store(s, vid, summary) ==
    LET i == IndexOf(s, vid)
    IN  IF i # 0 THEN [s EXCEPT ![i].summary = summary] ELSE s

(* The local variable entry of get and set_summary: self._store.get(vid),  *)
(* <<>> for None.                                                          *)
Lookup(s, vid) == IF IndexOf(s, vid) = 0 THEN <<>> ELSE <<s[IndexOf(s, vid)]>>

(* last records the latest call: its name, its arguments, the entry that   *)
(* was stored under its key when it began (seen) and what it returned      *)
(* (ret; for set the entry it stored).                                     *)
CacheGet(vid) ==
    /\ nops < MaxOps
    /\ LET i == IndexOf(store, vid)
       IN  i # 0 /\ ~is_expired(store[i], now) => store[i].access_count < MaxAccess
    /\ store' = get_store(store, vid, now)
    /\ last' = [op |-> "get", arg |-> <<vid>>, seen |-> Lookup(store, vid),
                ret |-> get_result(store, vid, now)]
    /\ nops' = nops + 1
    /\ UNCHANGED <<now, sessions, appended, ask, tasks, msg>>

CacheSet(vid, transcript, language_code) ==
    /\ nops < MaxOps
    /\ store' = set_store(store, vid, transcript, language_code, now)
    /\ last' = [op |-> "set", arg |-> <<vid, transcript, language_code>>,
                seen |-> Lookup(store, vid), ret |-> Lookup(store', vid)]
    /\ nops' = nops + 1
    /\ UNCHANGED <<now, sessions, appended, ask, tasks, msg>>

CacheSetSummary(vid, summary) ==
    /\ nops < MaxOps
    /\ store' = set_summary_store(store, vid, summary)
    /\ last' = [op |-> "set_summary", arg |-> <<vid, summary>>,
                seen |-> Lookup(store, vid), ret |-> <<>>]
    /\ nops' = nops + 1
    /\ UNCHANGED <<now, sessions, appended, ask, tasks, msg>>

(* Time passes between two calls (for a handler: also while it is inside a *)
(* blocking call).                                                         *)
Tick(t) ==
    /\ t > now
    /\ now' = t
    /\ last' = [op |-> "tick", arg |-> <<t>>, seen |-> <<>>, ret |-> <<>>]
    /\ UNCHANGED <<store, sessions, appended, nops, ask, tasks, msg>>

Prefilled(n) == [i \in 1..n |-> CacheEntry(i, "t1", "en", 0)]

InitCache ==
    /\ now = 0
    /\ \E n \in PrefillSizes : store = Prefilled(n)
    /\ sessions = <<>>
    /\ appended = <<>>
    /\ last = [op |-> "init", arg |-> <<>>, seen |-> <<>>, ret |-> <<>>]
    /\ nops = 0
    /\ ask = AskEntered
    /\ tasks = [r \in Tasks |-> NoTask]
    /\ msg = NoMessage

NextCache ==
    \/ \E vid \in VideoIds : CacheGet(vid)
    \/ \E vid \in VideoIds, f \in Fetched : CacheSet(vid, f[1], f[2])
    \/ \E vid \in VideoIds, s \in Summaries : CacheSetSummary(vid, s)
    \/ \E t \in CacheTimes : Tick(t)

SpecCache == InitCache /\ [][NextCache]_vars

(***************************************************************************)
(* services/session.py                                                     *)
(***************************************************************************)
(* UserSession() constructed at time t. *)
UserSession(t) ==
    [video_id |-> NoVideo, transcript |-> None, summary |-> None,
     language |-> "English", history |-> <<>>, created_at |-> t, last_active |-> t]

(* UserSession.touch at time t. *)
session_touch(s, t) == [s EXCEPT !.last_active = t]

(* is_expired that already expires at exactly the TTL. *)
session_is_expired_at_ttl(s, t) == (t - s.last_active) >= _SESSION_TTL_SECONDS

(* UserSession.is_expired at time t. *)
session_is_expired(s, t) == (t - s.last_active) > _SESSION_TTL_SECONDS

(* add_history that trims from the back. *)
add_history_keep_oldest(s, role, content) ==
    LET h == Append(s.history, [role |-> role, content |-> content])
    IN  [s EXCEPT !.history =
            IF Len(h) > _MAX_HISTORY_MESSAGES
            THEN SubSeq(h, 1, _MAX_HISTORY_MESSAGES)
            ELSE h]

(* UserSession.add_history. *)
add_history(s, role, content) ==
    LET h == Append(s.history, [role |-> role, content |-> content])
    IN  [s EXCEPT !.history =
            IF Len(h) > _MAX_HISTORY_MESSAGES
            THEN SubSeq(h, Len(h) - _MAX_HISTORY_MESSAGES + 1, Len(h))
            ELSE h]

(* UserSession.reset at time t. *)
reset(s, t) ==
    session_touch([s EXCEPT !.video_id = NoVideo, !.transcript = None,
                            !.summary = None, !.history = <<>>], t)

(* _sessions[chat_id] = s. *)
SessionAssign(ss, chat_id, s) ==
    [c \in (DOMAIN ss) \cup {chat_id} |-> IF c = chat_id THEN s ELSE ss[c]]

(* _sessions.get(chat_id): <<>> for None. *)
SessionLookup(ss, chat_id) == IF chat_id \in DOMAIN ss THEN <<ss[chat_id]>> ELSE <<>>

(* Whether get_session(chat_id) at time t starts a fresh session. *)
StartsFresh(ss, chat_id, t) ==
    chat_id \notin DOMAIN ss \/ session_is_expired(ss[chat_id], t)

(* get_session that starts a fresh session on every call. *)
get_session_always_fresh(ss, chat_id, t) == SessionAssign(ss, chat_id, UserSession(t))

(* _sessions after get_session(chat_id) at time t; the call returns        *)
(* _sessions[chat_id] of the result.                                       *)
get_session(ss, chat_id, t) ==
    IF StartsFresh(ss, chat_id, t)
    THEN SessionAssign(ss, chat_id, UserSession(t))
    ELSE [ss EXCEPT ![chat_id] = session_touch(ss[chat_id], t)]

(* update_video that keeps the history. *)
update_video_keep_history(ss, chat_id, video_id, transcript, summary, t) ==
    LET got == get_session(ss, chat_id, t)
    IN  [got EXCEPT ![chat_id] =
            session_touch([got[chat_id] EXCEPT !.video_id = video_id,
                                               !.transcript = transcript,
                                               !.summary = summary], t)]

(* _sessions after update_video at time t. *)
update_video(ss, chat_id, video_id, transcript, summary, t) ==
    LET got == get_session(ss, chat_id, t)
    IN  [got EXCEPT ![chat_id] =
            session_touch([got[chat_id] EXCEPT !.video_id = video_id,
                                               !.transcript = transcript,
                                               !.summary = summary,
                                               !.history = <<>>], t)]

(* _sessions after update_language at time t. *)
update_language(ss, chat_id, language, t) ==
    LET got == get_session(ss, chat_id, t)
    IN  [got EXCEPT ![chat_id].language = language]

(* _sessions after append_history at time t. *)
append_history(ss, chat_id, role, content, t) ==
    LET got == get_session(ss, chat_id, t)
    IN  [got EXCEPT ![chat_id] = add_history(got[chat_id], role, content)]

(* has_video without the expiry check. *)
has_video_no_expiry(ss, chat_id, t) ==
    IF chat_id \notin DOMAIN ss THEN FALSE ELSE ss[chat_id].transcript # None

(* has_video that tests the transcript for truth, not for None. *)
has_video_truthy(ss, chat_id, t) ==
    IF chat_id \notin DOMAIN ss \/ session_is_expired(ss[chat_id], t)
    THEN FALSE
    ELSE ss[chat_id].transcript \notin {None, ""}

(* What has_video returns at time t. *)
has_video(ss, chat_id, t) ==
    IF chat_id \notin DOMAIN ss \/ session_is_expired(ss[chat_id], t)
    THEN FALSE
    ELSE ss[chat_id].transcript # None

(* _sessions after clear_session at time t. *)
clear_session_everyone(ss, chat_id, t) ==
    [c \in DOMAIN ss \cup {chat_id} |->
        IF c \in DOMAIN ss THEN reset(ss[c], t) ELSE UserSession(t)]

clear_session(ss, chat_id, t) ==
    IF chat_id \in DOMAIN ss
    THEN [ss EXCEPT ![chat_id] = reset(ss[chat_id], t)]
    ELSE SessionAssign(ss, chat_id, UserSession(t))

(* expired_ids that takes the age of a session from its creation. *)
expired_ids_by_age(ss, t) ==
    {c \in DOMAIN ss : (t - ss[c].created_at) > _SESSION_TTL_SECONDS}

(* The expired_ids of cleanup_expired at time t, and _sessions after it. *)
expired_ids(ss, t) == {c \in DOMAIN ss : session_is_expired(ss[c], t)}

cleanup_expired(ss, t) == [c \in (DOMAIN ss) \ expired_ids(ss, t) |-> ss[c]]

(* What active_session_count returns at time t. *)
active_session_count(ss, t) ==
    Cardinality({c \in DOMAIN ss : ~session_is_expired(ss[c], t)})

(* appended[c] lists the turns appended to the stored session of chat c    *)
(* since its history was last empty.  AppendedAfter gives it after a call  *)
(* for chat_id that ends in _sessions ss2; turns = <<>> says that the call *)
(* empties the history, kept that it appends nothing.                      *)
AppendedAfter(ss2, chat_id, emptied, turns) ==
    [c \in DOMAIN ss2 |->
        IF c # chat_id THEN appended[c]
        ELSE IF emptied THEN turns
        ELSE appended[c] \o turns]

GetSession(chat_id) ==
    /\ nops < MaxSessionOps
    /\ sessions' = get_session(sessions, chat_id, now)
    /\ appended' = AppendedAfter(sessions', chat_id,
                                 StartsFresh(sessions, chat_id, now), <<>>)
    /\ last' = [op |-> "get_session", arg |-> <<chat_id>>,
                seen |-> SessionLookup(sessions, chat_id),
                ret |-> <<sessions'[chat_id]>>]
    /\ nops' = nops + 1
    /\ UNCHANGED <<now, store, ask, tasks, msg>>

UpdateVideo(chat_id, video_id, transcript, summary) ==
    /\ nops < MaxSessionOps
    /\ sessions' = update_video(sessions, chat_id, video_id, transcript, summary, now)
    /\ appended' = AppendedAfter(sessions', chat_id, TRUE, <<>>)
    /\ last' = [op |-> "update_video",
                arg |-> <<chat_id, video_id, transcript, summary>>,
                seen |-> SessionLookup(sessions, chat_id), ret |-> <<>>]
    /\ nops' = nops + 1
    /\ UNCHANGED <<now, store, ask, tasks, msg>>

UpdateLanguage(chat_id, language) ==
    /\ nops < MaxSessionOps
    /\ sessions' = update_language(sessions, chat_id, language, now)
    /\ appended' = AppendedAfter(sessions', chat_id,
                                 StartsFresh(sessions, chat_id, now), <<>>)
    /\ last' = [op |-> "update_language", arg |-> <<chat_id, language>>,
                seen |-> SessionLookup(sessions, chat_id), ret |-> <<>>]
    /\ nops' = nops + 1
    /\ UNCHANGED <<now, store, ask, tasks, msg>>

AppendHistory(chat_id, role, content) ==
    /\ nops < MaxSessionOps
    /\ sessions' = append_history(sessions, chat_id, role, content, now)
    /\ appended' = AppendedAfter(sessions', chat_id,
                                 StartsFresh(sessions, chat_id, now),
                                 <<[role |-> role, content |-> content]>>)
    /\ last' = [op |-> "append_history", arg |-> <<chat_id, role, content>>,
                seen |-> SessionLookup(sessions, chat_id), ret |-> <<>>]
    /\ nops' = nops + 1
    /\ UNCHANGED <<now, store, ask, tasks, msg>>

HasVideo(chat_id) ==
    /\ nops < MaxSessionOps
    /\ last' = [op |-> "has_video", arg |-> <<chat_id>>,
                seen |-> SessionLookup(sessions, chat_id),
                ret |-> has_video(sessions, chat_id, now)]
    /\ nops' = nops + 1
    /\ UNCHANGED <<now, store, sessions, appended, ask, tasks, msg>>

ClearSession(chat_id) ==
    /\ nops < MaxSessionOps
    /\ sessions' = clear_session(sessions, chat_id, now)
    /\ appended' = AppendedAfter(sessions', chat_id, TRUE, <<>>)
    /\ last' = [op |-> "clear_session", arg |-> <<chat_id>>,
                seen |-> SessionLookup(sessions, chat_id), ret |-> <<>>]
    /\ nops' = nops + 1
    /\ UNCHANGED <<now, store, ask, tasks, msg>>

(* cleanup_job of bot.py: cleanup_expired, then active_session_count. *)
CleanupJob ==
    /\ nops < MaxSessionOps
    /\ sessions' = cleanup_expired(sessions, now)
    /\ appended' = [c \in DOMAIN sessions' |-> appended[c]]
    /\ last' = [op |-> "cleanup_job", arg |-> <<>>, seen |-> <<>>,
                ret |-> <<Cardinality(expired_ids(sessions, now)),
                          active_session_count(sessions', now)>>]
    /\ nops' = nops + 1
    /\ UNCHANGED <<now, store, ask, tasks, msg>>

(* History of the prefilled session: user and assistant turns in turn. *)
PrefillHistory ==
    [i \in 1..PrefillTurns |->
        IF i % 2 = 1 THEN [role |-> "user", content |-> "q"]
        ELSE [role |-> "assistant", content |-> "a"]]

PrefilledSessions ==
    SessionAssign(<<>>, 1,
        [UserSession(0) EXCEPT !.video_id = 1, !.transcript = "t1",
                               !.summary = "s1", !.history = PrefillHistory])

InitSession ==
    /\ now = 0
    /\ store = <<>>
    /\ \/ sessions = <<>> /\ appended = <<>>
       \/ sessions = PrefilledSessions /\ appended = SessionAssign(<<>>, 1, PrefillHistory)
    /\ last = [op |-> "init", arg |-> <<>>, seen |-> <<>>, ret |-> <<>>]
    /\ nops = 0
    /\ ask = AskEntered
    /\ tasks = [r \in Tasks |-> NoTask]
    /\ msg = NoMessage

NextSession ==
    \/ \E c \in ChatIds : GetSession(c)
    \/ \E c \in ChatIds, l \in Loads : UpdateVideo(c, l[1], l[2], l[3])
    \/ \E c \in ChatIds, l \in Languages : UpdateLanguage(c, l)
    \/ \E c \in ChatIds, u \in Turns : AppendHistory(c, u[1], u[2])
    \/ \E c \in ChatIds : HasVideo(c)
    \/ \E c \in ChatIds : ClearSession(c)
    \/ CleanupJob
    \/ \E t \in SessionTimes : Tick(t)

SpecSession == InitSession /\ [][NextSession]_vars

(***************************************************************************)
(* handlers/link_handler.py, handlers/qa_handler.py and cmd_reset of       *)
(* handlers/command_handler.py                                             *)
(*                                                                         *)
(* A handler runs on the asyncio event loop: it gives way to other         *)
(* coroutines only at an await, and its awaits are the Telegram sends and  *)
(* edits.  One action is the code from one await to the next.              *)
(* get_transcript, summarize, answer_question and translate_summary are    *)
(* plain calls made on the loop's thread (_ask sleeps with time.sleep):    *)
(* from the call to its return no coroutine runs, only time passes.  The   *)
(* places in_fetch, in_summarize, in_answer, in_translate are a handler    *)
(* inside such a call.  bot.py builds the Application without              *)
(* concurrent_updates, so it takes the next message when the handler of    *)
(* the last one has returned; the model also lets a second handler start   *)
(* while the first is at an await, which adds behaviours and removes none. *)
(***************************************************************************)
(* The messages handled per behaviour. *)
MaxRequests == 2

(* The video ids of the links and the languages a text can ask for. *)
LinkIds == {1, 2}

LangRequests == {None, "Hindi"}

(* What get_transcript returns for a video: (transcript, language_code). *)
Transcripts == <<<<"t1", "en">>, <<"", "hi">>>>

(* What summarize returns (the reply of the model, stripped). *)
Summarized == {"", "s1"}

(* The instants at which handlers run: the start, and when the sessions    *)
(* and the cache entries of the start have expired.                        *)
BotTimes == {0, _TTL_SECONDS + 60 * 60}

External == {"in_fetch", "in_summarize", "in_answer", "in_translate"}

(* The event loop's thread is inside a blocking call of some handler. *)
Blocked == \E q \in Tasks : tasks[q].pc \in External

(* Python truth of an Optional[str]. *)
Truthy(x) == x \notin {None, ""}

(* cached is a reference: it shows the entry object as it is now, as long  *)
(* as the store s still holds that object (the entry of that id created at *)
(* that time), and as it was last otherwise.                               *)
SyncRef(rec, s) ==
    IF rec.cached = <<>> THEN rec
    ELSE LET same == {i \in 1..Len(s) :
                        /\ s[i].vid = rec.cached[1].vid
                        /\ s[i].created_at = rec.cached[1].created_at}
         IN  IF same = {} THEN rec
             ELSE [rec EXCEPT !.cached = <<s[CHOOSE i \in same : TRUE]>>]

(* What is left of a handler that has returned: its message and locals    *)
(* are gone, the record of what it did stays until the task takes the next *)
(* message.                                                                *)
Left(rec) ==
    IF rec.pc # "done" THEN rec
    ELSE [NoTask EXCEPT !.kind = rec.kind, !.pc = "done",
                        !.status_failed = rec.status_failed,
                        !.ext_failed = rec.ext_failed,
                        !.updated = rec.updated]

(* A step of task r that leaves it as rec, the cache as st and the         *)
(* sessions as ss (emptied, turns: as for AppendedAfter); last names the   *)
(* task and the chat and video of its message.                             *)
Step(r, rec, st, ss, emptied, turns) ==
    /\ tasks' = [q \in Tasks |-> SyncRef(IF q = r THEN Left(rec) ELSE tasks[q], st)]
    /\ store' = st
    /\ sessions' = ss
    /\ appended' = IF ss = sessions THEN appended
                   ELSE AppendedAfter(ss, rec.chat, emptied, turns)
    /\ last' = [op |-> rec.kind, arg |-> <<r, rec.chat, rec.vid>>,
                seen |-> <<>>, ret |-> <<>>]
    /\ UNCHANGED <<now, ask, msg>>

(* The handler returns. *)
Finished(rec) == [rec EXCEPT !.pc = "done"]

(* Task r is the free task that takes the next message (the first one).   *)
(* The chats are alike: the one that sends the first message is chat 1.    *)
FirstFrom(chat_id) == chat_id = 1 \/ 1 \in DOMAIN sessions

Free(r) ==
    /\ tasks[r].pc \in {"idle", "done"}
    /\ \A q \in Tasks : q < r => tasks[q].pc \notin {"idle", "done"}

(* handle_link, Step 3: update_video, and update_language if the text      *)
(* asked for a language.                                                   *)
store_in_session(ss, rec, summary, t) ==
    LET loaded == update_video(ss, rec.chat, rec.vid, rec.transcript, summary, t)
    IN  IF rec.lang # None THEN update_language(loaded, rec.chat, rec.lang, t)
        ELSE loaded

(* handle_link, Step 2, for a task that Step 1 left as rec with the cache  *)
(* as st: reuse the cached summary and store it in the session, or enter   *)
(* summarize.                                                              *)
LinkStep2(r, rec, st) ==
    LET ref == SyncRef(rec, st).cached
    IN  IF ref # <<>> /\ Truthy(ref[1].summary) /\ rec.language = "English"
        THEN Step(r, Finished([rec EXCEPT !.updated = TRUE]), st,
                  store_in_session(sessions, rec, ref[1].summary, now), TRUE, <<>>)
        ELSE Step(r, [rec EXCEPT !.pc = "in_summarize", !.gens = rec.gens + 1],
                  st, sessions, FALSE, <<>>)

(* A link arrives (route_message only passes texts extract_video_id finds  *)
(* an id in): handle_link up to the send of the "Processing" message.      *)
LinkStart(r, chat_id, video_id, requested_lang) ==
    /\ ~Blocked
    /\ Free(r)
    /\ FirstFrom(chat_id)
    /\ nops < MaxRequests
    /\ nops' = nops + 1
    /\ LET s1 == IF requested_lang # None THEN sessions
                 ELSE get_session(sessions, chat_id, now)
           language == IF requested_lang # None THEN requested_lang
                       ELSE s1[chat_id].language
           s2 == get_session(s1, chat_id, now)
           current == s2[chat_id]
           rec == [NoTask EXCEPT !.kind = "link", !.chat = chat_id,
                                 !.vid = video_id, !.lang = requested_lang,
                                 !.language = language]
       IN  IF current.video_id = video_id /\ Truthy(current.transcript)
           THEN Step(r, Finished(rec), store, s2,
                     StartsFresh(sessions, chat_id, now), <<>>)
           ELSE Step(r, [rec EXCEPT !.pc = "processing"], store, s2,
                     StartsFresh(sessions, chat_id, now), <<>>)

(* The "Processing" send is over (sent: it gave loading_msg); Step 1: the  *)
(* cache lookup, on a hit up to the edit of loading_msg, or, without       *)
(* loading_msg, on into Step 2; on a miss into get_transcript.             *)
LinkLookup(r, sent) ==
    /\ ~Blocked
    /\ tasks[r].pc = "processing"
    /\ UNCHANGED nops
    /\ LET cached == get_result(store, tasks[r].vid, now)
           st == get_store(store, tasks[r].vid, now)
           rec == [tasks[r] EXCEPT !.loading = sent, !.cached = cached,
                                   !.status_failed = ~sent]
       IN  IF cached # <<>>
           THEN LET hit == [rec EXCEPT !.transcript = cached[1].transcript,
                                       !.lang_code = cached[1].language_code]
                IN  IF sent
                    THEN Step(r, [hit EXCEPT !.pc = "cache_edit"], st, sessions,
                              FALSE, <<>>)
                    ELSE LinkStep2(r, hit, st)
           ELSE Step(r, [rec EXCEPT !.pc = "in_fetch", !.fetches = rec.fetches + 1],
                     st, sessions, FALSE, <<>>)

(* get_transcript raises its ValueError: the handler reports it and        *)
(* returns.                                                                *)
LinkFetchFailed(r) ==
    /\ tasks[r].pc = "in_fetch"
    /\ UNCHANGED nops
    /\ Step(r, Finished([tasks[r] EXCEPT !.ext_failed = TRUE]), store, sessions,
            FALSE, <<>>)

(* get_transcript returns: transcript_cache.set, then up to the edit of    *)
(* loading_msg or, without loading_msg, on into Step 2.                    *)
LinkFetched(r, transcript, lang_code) ==
    /\ tasks[r].pc = "in_fetch"
    /\ UNCHANGED nops
    /\ LET st == set_store(store, tasks[r].vid, transcript, lang_code, now)
           rec == [tasks[r] EXCEPT !.transcript = transcript,
                                   !.lang_code = lang_code]
       IN  IF rec.loading
           THEN Step(r, [rec EXCEPT !.pc = "fetched_edit"], st, sessions, FALSE, <<>>)
           ELSE LinkStep2(r, rec, st)

(* The edit of loading_msg is over (its failure is passed over): Step 2. *)
LinkEdited(r) ==
    /\ ~Blocked
    /\ tasks[r].pc \in {"cache_edit", "fetched_edit"}
    /\ UNCHANGED nops
    /\ LinkStep2(r, tasks[r], store)

LinkSummarizeFailed_unloads(r) ==
    /\ tasks[r].pc = "in_summarize"
    /\ UNCHANGED nops
    /\ Step(r, Finished([tasks[r] EXCEPT !.ext_failed = TRUE]), store,
            update_video(sessions, tasks[r].chat, tasks[r].vid,
                         tasks[r].transcript, None, now), TRUE, <<>>)

(* summarize raises: the handler reports it and returns. *)
LinkSummarizeFailed(r) ==
    /\ tasks[r].pc = "in_summarize"
    /\ UNCHANGED nops
    /\ Step(r, Finished([tasks[r] EXCEPT !.ext_failed = TRUE]), store, sessions,
            FALSE, <<>>)

LinkSummarized_any_language(r, summary) ==
    /\ tasks[r].pc = "in_summarize"
    /\ UNCHANGED nops
    /\ Step(r, Finished([tasks[r] EXCEPT !.updated = TRUE]),
            set_summary_store(store, tasks[r].vid, summary),
            store_in_session(sessions, tasks[r], summary, now), TRUE, <<>>)

(* summarize returns: set_summary for English, then Step 3; the sends of   *)
(* Step 4 come after, and touch no state.                                  *)
LinkSummarized(r, summary) ==
    /\ tasks[r].pc = "in_summarize"
    /\ UNCHANGED nops
    /\ Step(r, Finished([tasks[r] EXCEPT !.updated = TRUE]),
            IF tasks[r].language = "English"
            THEN set_summary_store(store, tasks[r].vid, summary)
            ELSE store,
            store_in_session(sessions, tasks[r], summary, now), TRUE, <<>>)

(* Another text arrives: handle_question up to its first send.  session is *)
(* the object get_session returned, which update_language changes in       *)
(* place.                                                                  *)
QuestionStart(r, chat_id, lang_request) ==
    /\ ~Blocked
    /\ Free(r)
    /\ FirstFrom(chat_id)
    /\ nops < MaxRequests
    /\ nops' = nops + 1
    /\ LET s1 == get_session(sessions, chat_id, now)
           s2 == update_language(s1, chat_id, lang_request, now)
           rec == [NoTask EXCEPT !.kind = "question", !.chat = chat_id,
                                 !.lang = lang_request]
           fresh == StartsFresh(sessions, chat_id, now)
       IN  IF lang_request # None
           THEN IF ~has_video(s2, chat_id, now) \/ ~Truthy(s2[chat_id].summary)
                THEN Step(r, Finished([rec EXCEPT !.updated = TRUE]), store, s2,
                          fresh, <<>>)
                ELSE Step(r, [rec EXCEPT !.pc = "translating"], store, s2,
                          fresh, <<>>)
           ELSE IF ~has_video(s1, chat_id, now)
                THEN Step(r, Finished(rec), store, s1, fresh, <<>>)
                ELSE Step(r, [rec EXCEPT !.pc = "thinking"], store, s1, fresh, <<>>)

(* The send of the "thinking" or "Translating" message is over: its error  *)
(* leaves the handler, else the handler enters answer_question or          *)
(* translate_summary.                                                      *)
QuestionSent(r, sent) ==
    /\ ~Blocked
    /\ tasks[r].pc \in {"thinking", "translating"}
    /\ UNCHANGED nops
    /\ IF ~sent
       THEN Step(r, Finished([tasks[r] EXCEPT !.status_failed = TRUE]),
                 store, sessions, FALSE, <<>>)
       ELSE Step(r, [tasks[r] EXCEPT
                        !.pc = IF tasks[r].pc = "thinking" THEN "in_answer"
                               ELSE "in_translate",
                        !.gens = tasks[r].gens + 1],
                 store, sessions, FALSE, <<>>)

(* answer_question or translate_summary raises: the handler reports it and *)
(* returns.                                                                *)
QuestionFailed(r) ==
    /\ tasks[r].pc \in {"in_answer", "in_translate"}
    /\ UNCHANGED nops
    /\ Step(r, Finished([tasks[r] EXCEPT !.ext_failed = TRUE]), store, sessions,
            FALSE, <<>>)

QuestionAnswered_answer_first(r, question, answer) ==
    /\ tasks[r].pc = "in_answer"
    /\ UNCHANGED nops
    /\ Step(r, Finished([tasks[r] EXCEPT !.updated = TRUE]), store,
            append_history(
                append_history(sessions, tasks[r].chat, "assistant", answer, now),
                tasks[r].chat, "user", question, now),
            StartsFresh(sessions, tasks[r].chat, now),
            <<[role |-> "assistant", content |-> answer],
              [role |-> "user", content |-> question]>>)

(* answer_question returns: the two append_history calls. *)
QuestionAnswered(r, question, answer) ==
    /\ tasks[r].pc = "in_answer"
    /\ UNCHANGED nops
    /\ Step(r, Finished([tasks[r] EXCEPT !.updated = TRUE]), store,
            append_history(
                append_history(sessions, tasks[r].chat, "user", question, now),
                tasks[r].chat, "assistant", answer, now),
            StartsFresh(sessions, tasks[r].chat, now),
            <<[role |-> "user", content |-> question],
              [role |-> "assistant", content |-> answer]>>)

SummaryTranslated_into_cache(r, translated) ==
    /\ tasks[r].pc = "in_translate"
    /\ UNCHANGED nops
    /\ Step(r, Finished([tasks[r] EXCEPT !.updated = TRUE]),
            set_summary_store(store,
                get_session(sessions, tasks[r].chat, now)[tasks[r].chat].video_id,
                translated),
            [get_session(sessions, tasks[r].chat, now)
                EXCEPT ![tasks[r].chat].summary = translated],
            StartsFresh(sessions, tasks[r].chat, now), <<>>)

(* translate_summary returns: sess.get_session(chat_id).summary =          *)
(* translated.                                                             *)
SummaryTranslated(r, translated) ==
    /\ tasks[r].pc = "in_translate"
    /\ UNCHANGED nops
    /\ Step(r, Finished([tasks[r] EXCEPT !.updated = TRUE]), store,
            [get_session(sessions, tasks[r].chat, now)
                EXCEPT ![tasks[r].chat].summary = translated],
            StartsFresh(sessions, tasks[r].chat, now), <<>>)

(* /reset arrives: cmd_reset up to its reply, which touches no state. *)
CmdReset(r, chat_id) ==
    /\ ~Blocked
    /\ Free(r)
    /\ FirstFrom(chat_id)
    /\ nops < MaxRequests
    /\ nops' = nops + 1
    /\ Step(r, Finished([NoTask EXCEPT !.kind = "reset", !.chat = chat_id]),
            store, clear_session(sessions, chat_id, now), TRUE, <<>>)

(* What task r can do next. *)
Runs(r) ==
    \/ \E c \in ChatIds, v \in LinkIds, l \in LangRequests : LinkStart(r, c, v, l)
    \/ \E sent \in BOOLEAN : LinkLookup(r, sent)
    \/ LinkFetchFailed(r)
    \/ LinkFetched(r, Transcripts[tasks[r].vid][1], Transcripts[tasks[r].vid][2])
    \/ LinkEdited(r)
    \/ LinkSummarizeFailed(r)
    \/ \E s \in Summarized : LinkSummarized(r, s)
    \/ \E c \in ChatIds, l \in LangRequests : QuestionStart(r, c, l)
    \/ \E sent \in BOOLEAN : QuestionSent(r, sent)
    \/ QuestionFailed(r)
    \/ QuestionAnswered(r, "q", "a")
    \/ SummaryTranslated(r, "s3")
    \/ \E c \in ChatIds : CmdReset(r, c)

InitBot ==
    /\ now = 0
    /\ store = <<>>
    /\ sessions = <<>>
    /\ appended = <<>>
    /\ last = [op |-> "init", arg |-> <<>>, seen |-> <<>>, ret |-> <<>>]
    /\ nops = 0
    /\ ask = AskEntered
    /\ tasks = [r \in Tasks |-> NoTask]
    /\ msg = NoMessage

NextBot ==
    \/ \E r \in Tasks : Runs(r)
    \/ \E t \in BotTimes : Tick(t)

SpecBot == InitBot /\ [][NextBot]_vars

(* The bot some time into a conversation: chat 1 has sent the link of      *)
(* video 1 and then AnsweredBefore questions, each answered, all at time   *)
(* 0; the cache holds the entry of the video with its summary.             *)
AnsweredBefore == _MAX_HISTORY_MESSAGES \div 2

AnsweredHistory ==
    [i \in 1..(2 * AnsweredBefore) |->
        IF i % 2 = 1 THEN [role |-> "user", content |-> "q0"]
        ELSE [role |-> "assistant", content |-> "a0"]]

InitChat ==
    /\ now = 0
    /\ store = <<[CacheEntry(1, "t1", "en", 0) EXCEPT !.summary = "s1"]>>
    /\ sessions = SessionAssign(<<>>, 1,
                      [UserSession(0) EXCEPT !.video_id = 1, !.transcript = "t1",
                                             !.summary = "s1",
                                             !.history = AnsweredHistory])
    /\ appended = SessionAssign(<<>>, 1, AnsweredHistory)
    /\ last = [op |-> "init", arg |-> <<>>, seen |-> <<>>, ret |-> <<>>]
    /\ nops = 0
    /\ ask = AskEntered
    /\ tasks = [r \in Tasks |-> NoTask]
    /\ msg = NoMessage

SpecChat == InitChat /\ [][NextBot]_vars

(***************************************************************************)
(* utils/telegram_helpers.py: the two helpers, one action per step of the  *)
(* splitting loop and per message sent.                                    *)
(***************************************************************************)
RECURSIVE SumOfLines(_, _)
SumOfLines(text, c) ==
    IF c = <<>> THEN 0 ELSE text[Head(c)] + SumOfLines(text, Tail(c))

(* len() of the string that joins the lines c of text with "\n". *)
StrLen(text, c) == IF c = <<>> THEN 0 ELSE SumOfLines(text, c) + Len(c) - 1

WholeText(text) == [j \in 1..Len(text) |-> j]

(* One pass of the for loop, for line i. *)
add_line(m, i) ==
    IF StrLen(m.text, m.current) + m.text[i] + 1 > MAX_MSG_LEN
    THEN [m EXCEPT !.chunks = IF StrLen(m.text, m.current) > 0
                              THEN Append(m.chunks, m.current) ELSE m.chunks,
                   !.current = <<i>>]
    ELSE [m EXCEPT !.current = IF StrLen(m.text, m.current) > 0
                               THEN Append(m.current, i) ELSE <<i>>]

(* if current: chunks.append(current), after the loop. *)
flush(m) ==
    IF StrLen(m.text, m.current) > 0
    THEN [m EXCEPT !.chunks = Append(m.chunks, m.current)] ELSE m

(* The helper is called: the test of len(text). *)
MsgEnter ==
    /\ msg.pc = "entered"
    /\ msg' = IF StrLen(msg.text, WholeText(msg.text)) <= MAX_MSG_LEN
              THEN [msg EXCEPT !.pc = "short"]
              ELSE [msg EXCEPT !.pc = "splitting", !.i = 1]
    /\ UNCHANGED <<now, store, sessions, appended, last, nops, ask, tasks>>

MsgSplit ==
    /\ msg.pc = "splitting"
    /\ msg.i <= Len(msg.text)
    /\ msg' = [add_line(msg, msg.i) EXCEPT !.i = msg.i + 1]
    /\ UNCHANGED <<now, store, sessions, appended, last, nops, ask, tasks>>

(* The loop is over: the last chunk is added; edit_or_send_long reads      *)
(* chunks[0], which raises IndexError on an empty list, and                *)
(* send_long_message loops over chunks.                                    *)
MsgFlush ==
    /\ msg.pc = "splitting"
    /\ msg.i > Len(msg.text)
    /\ LET m == flush(msg)
       IN  msg' = IF m.chunks # <<>> THEN [m EXCEPT !.pc = "sending", !.k = 1]
                  ELSE IF m.fn = "edit_or_send_long" THEN [m EXCEPT !.pc = "raised"]
                  ELSE [m EXCEPT !.pc = "returned"]
    /\ UNCHANGED <<now, store, sessions, appended, last, nops, ask, tasks>>

(* One message goes out: the whole text of a short one, else chunk k; the  *)
(* first message of edit_or_send_long is an edit of loading_msg, every     *)
(* other message a reply.                                                  *)
MsgDeliver(outcome) ==
    /\ msg.pc \in {"short", "sending"}
    /\ LET lines == IF msg.pc = "short" THEN WholeText(msg.text)
                    ELSE msg.chunks[msg.k]
           how == IF msg.fn = "edit_or_send_long" /\ msg.sent = <<>>
                  THEN "edit" ELSE "reply"
           took == [msg EXCEPT !.sent = Append(msg.sent,
                                   [how |-> how, lines |-> lines,
                                    markdown |-> (outcome = "markdown")])]
       IN  msg' = IF outcome = "error" THEN [msg EXCEPT !.pc = "raised"]
                  ELSE IF msg.pc = "short" \/ msg.k = Len(msg.chunks)
                       THEN [took EXCEPT !.pc = "returned"]
                  ELSE [took EXCEPT !.k = msg.k + 1]
    /\ UNCHANGED <<now, store, sessions, appended, last, nops, ask, tasks>>

InitMsg ==
    /\ now = 0
    /\ store = <<>>
    /\ sessions = <<>>
    /\ appended = <<>>
    /\ last = [op |-> "init", arg |-> <<>>, seen |-> <<>>, ret |-> <<>>]
    /\ nops = 0
    /\ ask = AskEntered
    /\ tasks = [r \in Tasks |-> NoTask]
    /\ \E fn \in Helpers, text \in Texts :
          msg = [NoMessage EXCEPT !.fn = fn, !.text = text, !.pc = "entered"]

NextMsg ==
    \/ MsgEnter
    \/ MsgSplit
    \/ MsgFlush
    \/ \E outcome \in Deliveries : MsgDeliver(outcome)

SpecMsg == InitMsg /\ [][NextMsg]_vars

(***************************************************************************)
(* Properties of the cache, checked under SpecCache.                       *)
(***************************************************************************)
(* A step that is a call of op (every action records its call in last). *)
IsCall(op) == last'.op = op /\ nops' = nops + 1

(* No entry of store s is older than the TTL at time t. *)
NoneExpired(s, t) == \A i \in 1..Len(s) : ~((t - s[i].created_at) > _TTL_SECONDS)

(* C1: the store never holds more than 200 entries, and a set of a new id  *)
(* into a store of 200 non-expired entries removes exactly one existing    *)
(* entry and leaves 200.                                                   *)
C1_Capacity ==
    /\ [](Len(store) <= _MAX_ENTRIES)
    /\ [][(/\ IsCall("set")
           /\ Len(store) = _MAX_ENTRIES
           /\ NoneExpired(store, now)
           /\ last'.arg[1] \notin Keys(store))
          => /\ Len(store') = _MAX_ENTRIES
             /\ Cardinality(Keys(store) \ Keys(store')) = 1
             /\ Keys(store') \ Keys(store) = {last'.arg[1]}]_vars

C1_Witness ==
    /\ last.op = "set" /\ nops = 1 /\ now <= _TTL_SECONDS
    /\ last.arg[1] = _MAX_ENTRIES + 1
    /\ Len(store) = _MAX_ENTRIES
    /\ Cardinality(Keys(store) \cap (1.._MAX_ENTRIES)) = _MAX_ENTRIES - 1

(* C2: get right after set of the same id returns the transcript and the   *)
(* language code that were set, no summary, and access_count 1.            *)
C2_PutGetRoundTrip ==
    [][(/\ IsCall("get")
        /\ last.op = "set"
        /\ last.arg[1] = last'.arg[1])
       => /\ last'.ret # <<>>
          /\ last'.ret[1].transcript = last.arg[2]
          /\ last'.ret[1].language_code = last.arg[3]
          /\ last'.ret[1].summary = None
          /\ last'.ret[1].access_count = 1
          /\ last.ret[1].access_count = 0
          /\ Lookup(store', last'.arg[1]) = last'.ret]_vars

C2_Witness ==
    /\ last.op = "get" /\ nops = 2
    /\ last.ret # <<>>
    /\ last.ret[1].transcript = "" /\ last.ret[1].language_code = "hi"
    /\ last.ret[1].created_at = now
    /\ last.ret[1].summary = None
    /\ last.ret[1].access_count = 1

(* C3: an entry created more than 24 hours ago is absent for the next get, *)
(* which removes it, and does not survive the next set, however often and  *)
(* recently it was read; a get that hits leaves created_at alone.           *)
C3_AbsoluteTtl ==
    [][/\ (IsCall("get") /\ last'.seen # <<>>
             /\ (now - last'.seen[1].created_at) > _TTL_SECONDS)
          => (last'.ret = <<>> /\ last'.arg[1] \notin Keys(store'))
       /\ IsCall("set") => NoneExpired(store', now)
       /\ (IsCall("get") /\ last'.ret # <<>>)
          => /\ last'.seen # <<>>
             /\ last'.ret[1].created_at = last'.seen[1].created_at
             /\ EntryOf(store', last'.arg[1]).created_at = last'.seen[1].created_at]_vars

(* A get at a time when the entry is past its TTL although it was read     *)
(* less than a TTL ago.                                                    *)
C3_Witness ==
    /\ last.op = "get" /\ last.seen # <<>>
    /\ last.seen[1].access_count >= 1
    /\ (now - last.seen[1].created_at) > _TTL_SECONDS
    /\ (now - last.seen[1].last_accessed) <= _TTL_SECONDS
    /\ last.ret = <<>>
    /\ last.arg[1] \notin Keys(store)

(* C4: a set that runs with 200 non-expired entries evicts at most one     *)
(* entry besides replacing its own key, the evicted entry has the least    *)
(* last_accessed of the store, and no entry read more recently than some   *)
(* other entry is evicted.                                                 *)
LeastAccessed(s) ==
    LET times == {s[i].last_accessed : i \in 1..Len(s)}
    IN  CHOOSE v \in times : \A w \in times : v <= w

(* What C4 asks of a set(vid) that took the store from before to after. *)
LruVictimOnly(before, after, vid) ==
    \A least \in {LeastAccessed(before)} :
    \A keysAfter \in {Keys(after)} :
    \A entriesAfter \in {{after[j] : j \in 1..Len(after)}} :
    \A evicted \in {{i \in 1..Len(before) :
                        before[i].vid # vid /\ before[i].vid \notin keysAfter}} :
        /\ Cardinality(evicted) <= 1
        /\ \A i \in evicted : before[i].last_accessed = least
        /\ evicted = {}
              => \E i \in 1..Len(before) :
                    before[i].vid = vid /\ before[i].last_accessed = least
        /\ \A i \in 1..Len(before) :
              before[i].last_accessed > least
                => /\ before[i].vid \in keysAfter
                   /\ before[i].vid # vid => before[i] \in entriesAfter

C4_LruVictim ==
    [][(/\ IsCall("set")
        /\ Len(store) = _MAX_ENTRIES
        /\ NoneExpired(store, now))
       => LruVictimOnly(store, store', last'.arg[1])]_vars

(* The full cache after get(1) an hour in and set of a new id: entry 1     *)
(* stays, entry 2 is the victim.                                           *)
C4_Witness ==
    /\ last.op = "set" /\ last.arg[1] = _MAX_ENTRIES + 1
    /\ now <= _TTL_SECONDS
    /\ Len(store) = _MAX_ENTRIES
    /\ 1 \in Keys(store) /\ 2 \notin Keys(store)
    /\ EntryOf(store, 1).access_count >= 1
    /\ EntryOf(store, 1).last_accessed > EntryOf(store, 3).last_accessed

(* What C24 asks of a set(vid) at time t that took the store from before   *)
(* to after; lost: the entries of other ids, at most 24 hours old, that    *)
(* the set removed.                                                        *)
SweepFirst(before, after, vid, t) ==
    \A entriesAfter \in {{after[j] : j \in 1..Len(after)}} :
    \A fresh \in {{i \in 1..Len(before) :
                      (t - before[i].created_at) <= _TTL_SECONDS}} :
    \A lost \in {{i \in fresh :
                     before[i].vid # vid /\ before[i] \notin entriesAfter}} :
        /\ (Len(before) = _MAX_ENTRIES /\ Cardinality(fresh) < _MAX_ENTRIES)
              => /\ lost = {}
                 /\ NoneExpired(after, t)
                 /\ Keys(after) = {before[i].vid : i \in fresh} \cup {vid}
        /\ lost # {}
              => (Len(before) = _MAX_ENTRIES /\ Cardinality(fresh) = _MAX_ENTRIES)

(* C24: a set that finds 200 entries of which some are older than 24 hours *)
(* removes all of those and no other entry (its own key it replaces); a    *)
(* set removes an entry of another id that is at most 24 hours old only    *)
(* when it finds 200 entries none of which is older.                       *)
C24_SweepBeforeEvict ==
    [][IsCall("set") => SweepFirst(store, store', last'.arg[1], now)]_vars

(* The set found the full cache with one entry an hour old and the others, *)
(* its own key among them, past 24 hours: the young entry stays, alone     *)
(* with the new one.                                                       *)
C24_Witness ==
    /\ last.op = "set" /\ nops = MaxOps
    /\ last.seen # <<>>
    /\ last.seen[1].access_count >= 1
    /\ (now - last.seen[1].created_at) > _TTL_SECONDS
    /\ Len(store) = 2
    /\ store[1].vid # last.arg[1]
    /\ store[1].created_at < now /\ store[1].created_at > 0
    /\ store[2].created_at = now

(* C5: set_summary on an id without entry creates no entry and leaves the  *)
(* store as it was.                                                        *)
C5_SetSummaryAbsent ==
    [][(IsCall("set_summary") /\ last'.arg[1] \notin Keys(store))
       => (store' = store /\ last'.ret = <<>>)]_vars

C5_Witness ==
    /\ last.op = "set_summary" /\ last.seen = <<>>
    /\ last.arg[1] \notin Keys(store)
    /\ Len(store) = _MAX_ENTRIES

(***************************************************************************)
(* Properties of the session store, checked under SpecSession.             *)
(***************************************************************************)
(* A step that is a session call of op. *)
IsSessionCall(op) == last'.op = op /\ nops' = nops + 1

(* s is idle for more than the session TTL at time t. *)
IdleTooLong(s, t) == (t - s.last_active) > _SESSION_TTL_SECONDS

(* s is a session as constructed at time t, all fields at their defaults. *)
IsDefaultSession(s, t) ==
    /\ s.video_id = NoVideo /\ s.transcript = None /\ s.summary = None
    /\ s.history = <<>> /\ s.language = "English"
    /\ s.created_at = t /\ s.last_active = t

(* The video_id a reader finds for chat c (NoVideo without session). *)
VideoOf(ss, c) == IF c \in DOMAIN ss THEN ss[c].video_id ELSE NoVideo

(* C6: update_video leaves the session with the new video_id, transcript   *)
(* and summary and an empty history, and no step of any call leaves a      *)
(* session with a changed video_id next to a history that is not empty.    *)
C6_LoadAtomic ==
    [][/\ IsSessionCall("update_video")
          => LET s == sessions'[last'.arg[1]]
             IN  /\ s.video_id = last'.arg[2]
                 /\ s.transcript = last'.arg[3]
                 /\ s.summary = last'.arg[4]
                 /\ s.history = <<>>
       /\ \A c \in DOMAIN sessions' :
            (sessions'[c].video_id # VideoOf(sessions, c)
               /\ sessions'[c].video_id # NoVideo)
              => sessions'[c].history = <<>>]_vars

(* A second load, of another video, into a live session that has turns. *)
C6_Witness ==
    /\ last.op = "update_video" /\ last.seen # <<>>
    /\ last.seen[1].video_id \notin {NoVideo, last.arg[2]}
    /\ last.seen[1].history # <<>>
    /\ ~IdleTooLong(last.seen[1], now)
    /\ sessions[last.arg[1]].video_id = last.arg[2]
    /\ sessions[last.arg[1]].history = <<>>

(* C7: for a session idle for more than 2 hours has_video returns false,   *)
(* and get_session stores and returns a session with all default fields.   *)
C7_SessionTtl ==
    [][/\ (IsSessionCall("has_video") /\ last'.seen # <<>>
             /\ IdleTooLong(last'.seen[1], now))
          => last'.ret = FALSE
       /\ (IsSessionCall("get_session") /\ last'.seen # <<>>
             /\ IdleTooLong(last'.seen[1], now))
          => /\ IsDefaultSession(last'.ret[1], now)
             /\ sessions'[last'.arg[1]] = last'.ret[1]]_vars

(* has_video on an expired session that has a video loaded. *)
C7_Witness ==
    /\ last.op = "has_video" /\ last.seen # <<>>
    /\ last.seen[1].transcript # None
    /\ last.seen[1].video_id # NoVideo
    /\ IdleTooLong(last.seen[1], now)
    /\ last.ret = FALSE

(* The last n elements of q. *)
LastN(q, n) == IF Len(q) <= n THEN q ELSE SubSeq(q, Len(q) - n + 1, Len(q))

(* C8: every history has at most 20 entries and is the last 20 of the      *)
(* turns appended since it was last empty, in their order; so it has       *)
(* exactly 20 once more than 20 were appended.                             *)
C8_HistoryBound ==
    \A c \in DOMAIN sessions :
        /\ Len(sessions[c].history) <= _MAX_HISTORY_MESSAGES
        /\ sessions[c].history = LastN(appended[c], _MAX_HISTORY_MESSAGES)
        /\ Len(appended[c]) > _MAX_HISTORY_MESSAGES
              => Len(sessions[c].history) = _MAX_HISTORY_MESSAGES

C8_Witness ==
    /\ last.op = "append_history"
    /\ Len(appended[last.arg[1]]) > _MAX_HISTORY_MESSAGES + 1
    /\ Len(sessions[last.arg[1]].history) = _MAX_HISTORY_MESSAGES
    /\ sessions[last.arg[1]].history[_MAX_HISTORY_MESSAGES - 1].role
         = sessions[last.arg[1]].history[_MAX_HISTORY_MESSAGES].role

(* C9: get_session returns the stored session with only last_active        *)
(* refreshed when one exists that is idle for at most 2 hours, and         *)
(* otherwise a new session with all default fields; it stores what it      *)
(* returns and leaves the other chats alone.                               *)
C9_GetSession ==
    [][IsSessionCall("get_session")
       => LET c == last'.arg[1]
              r == last'.ret[1]
          IN  /\ IF c \in DOMAIN sessions /\ ~IdleTooLong(sessions[c], now)
                 THEN r = [sessions[c] EXCEPT !.last_active = now]
                 ELSE IsDefaultSession(r, now)
              /\ sessions'[c] = r
              /\ DOMAIN sessions' = (DOMAIN sessions) \cup {c}
              /\ \A d \in (DOMAIN sessions) \ {c} : sessions'[d] = sessions[d]]_vars

(* get_session at exactly 2 hours of inactivity: the loaded session is     *)
(* returned, refreshed.                                                    *)
C9_Witness ==
    /\ last.op = "get_session" /\ last.seen # <<>>
    /\ now - last.seen[1].last_active = _SESSION_TTL_SECONDS
    /\ last.seen[1].transcript # None
    /\ last.ret[1].transcript = last.seen[1].transcript
    /\ last.ret[1].last_active = now

(* C10: has_video returns true exactly when a session is stored for the    *)
(* chat, it is idle for at most 2 hours and its transcript is not None;    *)
(* the store is left as it was.                                            *)
C10_HasVideo ==
    [][IsSessionCall("has_video")
       => LET c == last'.arg[1]
          IN  /\ last'.ret = (/\ c \in DOMAIN sessions
                              /\ ~IdleTooLong(sessions[c], now)
                              /\ sessions[c].transcript # None)
              /\ sessions' = sessions]_vars

(* has_video is true for a live session whose transcript is the empty text. *)
C10_Witness ==
    /\ last.op = "has_video" /\ last.seen # <<>>
    /\ last.seen[1].transcript = ""
    /\ last.ret = TRUE

(* C11: clear_session on a stored session idle for at most 2 hours clears  *)
(* video_id, transcript and summary and empties the history in place,      *)
(* keeping the language; on an absent or longer idle session it leaves a   *)
(* session with all default fields, created now.  Either way last_active   *)
(* is now.                                                                 *)
C11_ClearSession ==
    [][IsSessionCall("clear_session")
       => LET c == last'.arg[1]
          IN  /\ IF c \in DOMAIN sessions /\ ~IdleTooLong(sessions[c], now)
                 THEN sessions'[c] =
                        [sessions[c] EXCEPT !.video_id = NoVideo,
                                            !.transcript = None,
                                            !.summary = None,
                                            !.history = <<>>,
                                            !.last_active = now]
                 ELSE IsDefaultSession(sessions'[c], now)
              /\ sessions'[c].last_active = now]_vars

(* The sessions idle for more than 2 hours at time t. *)
IdleSessions(ss, t) == {c \in DOMAIN ss : IdleTooLong(ss[c], t)}

(* C12: cleanup_expired removes exactly the sessions idle for more than 2  *)
(* hours and returns their number; with none of them it returns 0 and      *)
(* leaves the store and the active count as they were; the active count    *)
(* read after it is the number of stored sessions.                         *)
C12_Cleanup ==
    [][IsSessionCall("cleanup_job")
       => /\ DOMAIN sessions' = (DOMAIN sessions) \ IdleSessions(sessions, now)
          /\ \A c \in DOMAIN sessions' : sessions'[c] = sessions[c]
          /\ last'.ret[1] = Cardinality(IdleSessions(sessions, now))
          /\ IdleSessions(sessions, now) = {}
                => /\ last'.ret[1] = 0
                   /\ sessions' = sessions
                   /\ last'.ret[2] = Cardinality((DOMAIN sessions)
                                                   \ IdleSessions(sessions, now))
          /\ last'.ret[2] = Cardinality(DOMAIN sessions')]_vars

(* A sweep that removes one session and keeps another, older one that was  *)
(* used less than 2 hours ago.                                             *)
C12_Witness ==
    /\ last.op = "cleanup_job"
    /\ last.ret = <<1, 1>>
    /\ \E c \in DOMAIN sessions :
          /\ (now - sessions[c].created_at) > _SESSION_TTL_SECONDS
          /\ ~IdleTooLong(sessions[c], now)

(* C15: set on an id that has an entry leaves exactly one entry for the    *)
(* id, with the new transcript and language code, no summary and           *)
(* access_count 0.                                                         *)
C15_SetReplaces ==
    [][(IsCall("set") /\ last'.arg[1] \in Keys(store))
       => /\ Cardinality({i \in 1..Len(store') : store'[i].vid = last'.arg[1]}) = 1
          /\ EntryOf(store', last'.arg[1])
                = CacheEntry(last'.arg[1], last'.arg[2], last'.arg[3], now)
          /\ EntryOf(store', last'.arg[1]).summary = None
          /\ EntryOf(store', last'.arg[1]).access_count = 0]_vars

(* set over a live entry that was read and had a summary attached. *)
C15_Witness ==
    /\ last.op = "set" /\ last.seen # <<>>
    /\ last.seen[1].summary # None
    /\ last.seen[1].access_count >= 1
    /\ (now - last.seen[1].created_at) <= _TTL_SECONDS
    /\ last.ret[1].summary = None
    /\ last.ret[1].access_count = 0
    /\ last.ret[1].transcript # last.seen[1].transcript

(***************************************************************************)
(* Properties of _ask, checked under SpecAsk.                              *)
(***************************************************************************)
(* Every call made on the primary model so far got a rate-limit error that *)
(* does not name the tokens-per-day limit.                                 *)
PrimaryAllRate(a) ==
    /\ a.calls # <<>>
    /\ \A i \in 1..Len(a.calls) :
          a.calls[i][1] = _MODEL => a.calls[i][2] = "rate"

FallbackCalled(a) == \E i \in 1..Len(a.calls) : a.calls[i][1] = _FALLBACK_MODEL

(* C16 as claimed: when every call on the primary model gets a rate-limit  *)
(* error, _ask retries on the primary, then calls the fallback model, and  *)
(* raises only after a call on the fallback model failed too.              *)
C16_FallbackBeforeFailure ==
    (PrimaryAllRate(ask) /\ ask.pc = "raised")
        => /\ FallbackCalled(ask)
           /\ ask.calls[Len(ask.calls)][1] = _FALLBACK_MODEL

(* C16 amended: when every call on the primary model gets a rate-limit     *)
(* error that does not name the tokens-per-day limit, _ask makes 3 calls   *)
(* on the primary model, sleeps 15 seconds after the first and after the   *)
(* second, and raises the third error without calling the fallback model;  *)
(* the fallback model is only called after a tokens-per-day error on the   *)
(* primary model.                                                          *)
C16_RetryThenRaise ==
    /\ PrimaryAllRate(ask)
          => /\ ~FallbackCalled(ask)
             /\ Len(ask.calls) <= Attempts
             /\ ask.pc # "returned"
             /\ (ask.pc = "raised") = (Len(ask.calls) = Attempts)
             /\ ask.pc = "raised" => ask.error = "rate"
             /\ ask.slept = [i \in 1..Len(ask.slept) |-> BackoffSeconds]
             /\ Len(ask.slept) =
                   IF ask.pc = "calling" THEN Len(ask.calls) ELSE Len(ask.calls) - 1
    /\ \A i \in 1..Len(ask.calls) :
          ask.calls[i][1] = _FALLBACK_MODEL
            => \E j \in 1..(i - 1) : ask.calls[j] = <<_MODEL, "tpd">>

C16_Witness ==
    /\ ask.pc = "raised"
    /\ ask.calls = <<<<_MODEL, "rate">>, <<_MODEL, "rate">>, <<_MODEL, "rate">>>>
    /\ ask.slept = <<BackoffSeconds, BackoffSeconds>>
    /\ ask.error = "rate"

(* C17: after a backend call that failed with an error that is neither a   *)
(* rate limit nor the tokens-per-day limit, _ask has raised and has made   *)
(* no further backend call.                                                *)
C17_RaiseAtOnce ==
    \A i \in 1..Len(ask.calls) :
        ask.calls[i][2] = "other"
          => (i = Len(ask.calls) /\ ask.pc = "raised" /\ ask.error = "other")

(* The backend calls _ask has made with model m. *)
CallsWith(a, m) == {i \in 1..Len(a.calls) : a.calls[i][1] = m}

(* C27: _ask makes at most 3 backend calls with each model, so at most 6,  *)
(* whatever the calls answer; it ends, and it ends by returning after a    *)
(* call that answered or by raising after a call that failed.              *)
C27_BoundedCalls ==
    /\ [](\A i \in 1..Len(models_to_try) :
            Cardinality(CallsWith(ask, models_to_try[i])) <= Attempts)
    /\ [](Len(ask.calls) <= Attempts * Len(models_to_try))
    /\ [](ask.pc = "returned"
            => ask.calls[Len(ask.calls)][2] = "ok" /\ ask.error = None)
    /\ [](ask.pc = "raised"
            => ask.calls[Len(ask.calls)][2] # "ok" /\ ask.error # None)
    /\ <>[](ask.pc \in {"returned", "raised"})

(* _ask has made six calls: the primary model hit the tokens-per-day limit *)
(* on its third, the fallback failed three times.                          *)
C27_Witness ==
    /\ ask.pc = "raised"
    /\ Len(ask.calls) = Attempts * Len(models_to_try)
    /\ Cardinality(CallsWith(ask, _MODEL)) = Attempts
    /\ Cardinality(CallsWith(ask, _FALLBACK_MODEL)) = Attempts
    /\ ask.calls[Attempts] = <<_MODEL, "tpd">>

(***************************************************************************)
(* Properties of the handlers, checked under SpecBot.                      *)
(***************************************************************************)
(* Store s holds an entry for vid that is at most 24 hours old at time t. *)
LiveEntry(s, vid, t) ==
    \E i \in 1..Len(s) : s[i].vid = vid /\ (t - s[i].created_at) <= _TTL_SECONDS

(* The step is one of the handler of task r. *)
StepOf(r) == last'.op \in {"link", "question", "reset"} /\ last'.arg[1] = r

(* C13: a handler enters get_transcript for an id only when the cache      *)
(* holds no entry for it that is at most 24 hours old, the return of       *)
(* get_transcript stores such an entry at once, and no two handlers are    *)
(* inside get_transcript together; so while that entry is there no         *)
(* handler, of whatever chat, fetches the id again.                        *)
C13_FetchOnce ==
    /\ [](\A r, q \in Tasks :
            (tasks[r].pc = "in_fetch" /\ tasks[q].pc = "in_fetch") => r = q)
    /\ [](\A r \in Tasks : tasks[r].fetches <= 1)
    /\ [][\A r \in Tasks :
            /\ (StepOf(r) /\ tasks'[r].pc = "in_fetch")
                  => ~LiveEntry(store, tasks'[r].vid, now)
            /\ (StepOf(r) /\ tasks[r].pc = "in_fetch" /\ ~tasks'[r].ext_failed)
                  => LiveEntry(store', tasks[r].vid, now)]_vars

(* A chat sent the link of the video another chat has loaded: its handler  *)
(* found the entry and goes on to the summary without a fetch.             *)
C13_Witness ==
    \E q \in Tasks, c \in DOMAIN sessions :
        /\ tasks[q].kind = "link" /\ tasks[q].chat # c
        /\ sessions[c].video_id = tasks[q].vid
        /\ tasks[q].pc \in {"cache_edit", "in_summarize"}
        /\ tasks[q].cached # <<>> /\ tasks[q].fetches = 0
        /\ LiveEntry(store, tasks[q].vid, now)

(* C14: the summary of a cache entry, once set, stays what it is as long   *)
(* as the store holds that entry.                                          *)
C14_FirstWriterWins ==
    [][\A i \in 1..Len(store), j \in 1..Len(store') :
          (/\ store[i].summary # None
           /\ store'[j].vid = store[i].vid
           /\ store'[j].created_at = store[i].created_at)
            => store'[j].summary = store[i].summary]_vars

(* The content a reader finds in the session of chat c at time t: video_id, *)
(* transcript, summary and history, the defaults without a session idle    *)
(* for at most 2 hours.                                                    *)
ContentOf(ss, c, t) ==
    IF c \notin DOMAIN ss \/ IdleTooLong(ss[c], t)
    THEN <<NoVideo, None, None, <<>>>>
    ELSE <<ss[c].video_id, ss[c].transcript, ss[c].summary, ss[c].history>>

(* C18: the steps of handle_link up to get_transcript leave the content of *)
(* the chat's session as a reader finds it; when get_transcript fails the  *)
(* handler has called it once and made no llm call, the cache holds no     *)
(* entry for the id, and the failing step changes neither the cache nor    *)
(* the sessions.                                                           *)
C18_FetchFailure ==
    [][\A r \in Tasks :
          (StepOf(r) /\ tasks'[r].kind = "link")
            => /\ tasks'[r].pc \in {"processing", "in_fetch"}
                    => /\ ContentOf(sessions', tasks'[r].chat, now)
                            = ContentOf(sessions, tasks'[r].chat, now)
                       /\ tasks'[r].gens = 0
               /\ tasks'[r].pc = "in_fetch"
                    => /\ Lookup(store', tasks'[r].vid) = <<>>
                       /\ sessions' = sessions
               /\ (tasks[r].pc = "in_fetch" /\ tasks'[r].ext_failed)
                    => /\ tasks'[r].pc = "done"
                       /\ tasks[r].fetches = 1 /\ tasks[r].gens = 0
                       /\ ~tasks'[r].updated
                       /\ store' = store
                       /\ Lookup(store', tasks[r].vid) = <<>>
                       /\ sessions' = sessions]_vars

(* The fetch failed for a chat whose session has another video loaded. *)
C18_Witness ==
    /\ last.op = "link"
    /\ tasks[last.arg[1]].pc = "done"
    /\ tasks[last.arg[1]].ext_failed /\ ~tasks[last.arg[1]].updated
    /\ Lookup(store, last.arg[3]) = <<>>
    /\ last.arg[2] \in DOMAIN sessions
    /\ sessions[last.arg[2]].video_id \notin {NoVideo, last.arg[3]}
    /\ sessions[last.arg[2]].history = <<>>
    /\ ~IdleTooLong(sessions[last.arg[2]], now)

(* C21: a step of a handler for one chat (handle_link, handle_question or  *)
(* cmd_reset, whatever its outcome) leaves the session of every other chat *)
(* stored and equal in all fields, and stores a session for no other chat; *)
(* a step of no handler changes no session.                                *)
C21_Isolation ==
    [][/\ \A d \in DOMAIN sessions :
             (last'.op \in {"link", "question", "reset"} => d # last'.arg[2])
               => (d \in DOMAIN sessions' /\ sessions'[d] = sessions[d])
       /\ \A d \in DOMAIN sessions' \ DOMAIN sessions :
             last'.op \in {"link", "question", "reset"} /\ d = last'.arg[2]]_vars

(* A handler of one chat failed in its external call, or reset its        *)
(* session, after it changed or stored that session, while another chat    *)
(* has a video loaded.                                                     *)
C21_Witness ==
    /\ last.op \in {"link", "question", "reset"}
    /\ tasks[last.arg[1]].pc = "done"
    /\ tasks[last.arg[1]].ext_failed \/ last.op = "reset"
    /\ last.arg[2] \in DOMAIN sessions
    /\ \E d \in DOMAIN sessions \ {last.arg[2]} :
          /\ sessions[d].video_id # NoVideo
          /\ sessions[d].summary # None
          /\ sessions[d].last_active < sessions[last.arg[2]].last_active

(* Some entry of store s2 has a summary that the same entry (same id, same *)
(* creation time) of store s has not.                                      *)
SummaryWritten(s, s2) ==
    \E j \in 1..Len(s2) :
        /\ s2[j].summary # None
        /\ ~\E i \in 1..Len(s) : /\ s[i].vid = s2[j].vid
                                 /\ s[i].created_at = s2[j].created_at
                                 /\ s[i].summary = s2[j].summary

(* C23: the summary of a cache entry is written only by the return of      *)
(* summarize in a handle_link whose language is English; handle_link       *)
(* stores a summary in the session without a summarize call only when its  *)
(* language is English, and it is then the summary of the entry it got     *)
(* from the cache; with any other language Step 2 enters summarize, and    *)
(* the return of summarize leaves the cache as it is.                      *)
C23_EnglishOnly ==
    [][/\ SummaryWritten(store, store')
            => /\ last'.op = "link"
               /\ tasks[last'.arg[1]].pc = "in_summarize"
               /\ tasks[last'.arg[1]].language = "English"
       /\ \A r \in Tasks :
            (StepOf(r) /\ last'.op = "link" /\ tasks[r].pc \notin {"idle", "done"})
              => /\ (tasks[r].pc # "in_summarize" /\ tasks'[r].updated)
                       => /\ tasks[r].language = "English"
                          /\ tasks[r].gens = 0
                          /\ \E ref \in {IF tasks[r].cached # <<>> THEN tasks[r].cached
                                          ELSE Lookup(store, last'.arg[3])} :
                                /\ ref # <<>>
                                /\ sessions'[last'.arg[2]].summary = ref[1].summary
                 /\ (/\ tasks[r].language # "English"
                     /\ tasks[r].pc \in {"cache_edit", "fetched_edit"})
                       => /\ tasks'[r].pc = "in_summarize"
                          /\ tasks'[r].gens = tasks[r].gens + 1
                 /\ (tasks[r].language # "English" /\ tasks[r].pc = "in_summarize")
                       => store' = store]_vars

(* A link asked for in Hindi whose cache entry has a summary: the handler  *)
(* is in summarize.                                                        *)
C23_Witness ==
    \E r \in Tasks :
        /\ tasks[r].kind = "link" /\ tasks[r].pc = "in_summarize"
        /\ tasks[r].language = "Hindi"
        /\ tasks[r].cached # <<>>
        /\ Truthy(tasks[r].cached[1].summary)
        /\ tasks[r].gens = 1

(* The history h is a sequence of pairs: a user turn, then an assistant    *)
(* turn.                                                                   *)
Paired(h) ==
    /\ Len(h) % 2 = 0
    /\ \A i \in 1..Len(h) :
          h[i].role = IF i % 2 = 1 THEN "user" ELSE "assistant"

(* The history of chat c as get_session finds it at time t. *)
HistoryFound(ss, c, t) ==
    IF c \in DOMAIN ss /\ ~IdleTooLong(ss[c], t) THEN ss[c].history ELSE <<>>

(* C25: between steps every stored history is a sequence of (user,         *)
(* assistant) pairs, of at most 20 turns; the step in which answer_question *)
(* returns appends the question and then the answer to the history found   *)
(* and keeps the last 20 turns; a step in which answer_question or         *)
(* translate_summary raises leaves the sessions as they are; and no other  *)
(* step changes a history except to empty it.                              *)
C25_PairedTurns ==
    /\ [](\A c \in DOMAIN sessions :
            Paired(sessions[c].history)
              /\ Len(sessions[c].history) <= _MAX_HISTORY_MESSAGES)
    /\ [][/\ \A r \in Tasks :
              (StepOf(r) /\ tasks[r].pc \in {"in_answer", "in_translate"})
                => IF tasks'[r].ext_failed THEN sessions' = sessions
                   ELSE tasks[r].pc = "in_answer"
                          => sessions'[tasks[r].chat].history =
                               LastN(HistoryFound(sessions, tasks[r].chat, now)
                                       \o <<[role |-> "user", content |-> "q"],
                                            [role |-> "assistant", content |-> "a"]>>,
                                     _MAX_HISTORY_MESSAGES)
          /\ \A c \in DOMAIN sessions' :
              (/\ sessions'[c].history # <<>>
               /\ c \in DOMAIN sessions => sessions'[c].history # sessions[c].history)
                => /\ last'.op = "question" /\ last'.arg[2] = c
                   /\ tasks[last'.arg[1]].pc = "in_answer"
                   /\ ~tasks'[last'.arg[1]].ext_failed]_vars

(* The eleventh question of a chat was answered: the history holds its     *)
(* pair last and, of the ten pairs before, the last nine.                  *)
C25_Witness ==
    \E c \in DOMAIN sessions :
        /\ last.op = "question" /\ last.arg[2] = c
        /\ Len(sessions[c].history) = _MAX_HISTORY_MESSAGES
        /\ sessions[c].history[1] = [role |-> "user", content |-> "q0"]
        /\ sessions[c].history[_MAX_HISTORY_MESSAGES - 1]
              = [role |-> "user", content |-> "q"]
        /\ sessions[c].history[_MAX_HISTORY_MESSAGES]
              = [role |-> "assistant", content |-> "a"]
        /\ Len(appended[c]) = _MAX_HISTORY_MESSAGES + 2

(* What a reader finds in the session of chat c at time t: its content and *)
(* its language, English without a session idle for at most 2 hours.       *)
SessionView(ss, c, t) ==
    <<ContentOf(ss, c, t),
      IF c \in DOMAIN ss /\ ~IdleTooLong(ss[c], t) THEN ss[c].language ELSE "English">>

(* C26: every step of handle_link before it stores its result leaves the   *)
(* content and the language of the chat's session as a reader finds them;  *)
(* the return of get_transcript stores the entry without a summary, and    *)
(* no later step of that handler up to the failure of summarize changes    *)
(* the cache; the failing step changes neither cache nor sessions, and,    *)
(* unless another handler ran meanwhile, the fetched entry is then in the  *)
(* cache without a summary.                                                *)
C26_GenerationFailure ==
    [][\A r \in Tasks :
          (StepOf(r) /\ last'.op = "link")
            => /\ ~tasks'[r].updated
                    => SessionView(sessions', last'.arg[2], now)
                         = SessionView(sessions, last'.arg[2], now)
               /\ (tasks[r].pc = "in_fetch" /\ ~tasks'[r].ext_failed)
                    => Lookup(store', last'.arg[3])
                         = <<CacheEntry(last'.arg[3], Transcripts[last'.arg[3]][1],
                                        Transcripts[last'.arg[3]][2], now)>>
               /\ (/\ tasks[r].fetches = 1
                   /\ tasks[r].pc \in {"fetched_edit", "in_summarize"}
                   /\ ~tasks'[r].updated)
                    => store' = store
               /\ (tasks[r].pc = "in_summarize" /\ tasks'[r].ext_failed)
                    => /\ tasks'[r].pc = "done"
                       /\ sessions' = sessions /\ store' = store
                       /\ (/\ tasks[r].fetches = 1
                           /\ \A q \in Tasks \ {r} : tasks[q].pc = "idle")
                            => /\ Lookup(store', last'.arg[3]) # <<>>
                               /\ Lookup(store', last'.arg[3])[1].summary = None
                               /\ Lookup(store', last'.arg[3])[1].transcript
                                     = tasks[r].transcript]_vars

(* summarize failed for a freshly fetched video in a chat that has another *)
(* video loaded and questions answered: video and history are still there, *)
(* the new entry is cached without a summary.                              *)
C26_Witness ==
    /\ last.op = "link"
    /\ tasks[last.arg[1]].pc = "done"
    /\ tasks[last.arg[1]].ext_failed /\ ~tasks[last.arg[1]].updated
    /\ Lookup(store, last.arg[3]) # <<>>
    /\ Lookup(store, last.arg[3])[1].summary = None
    /\ Lookup(store, last.arg[3])[1].access_count = 0
    /\ last.arg[2] \in DOMAIN sessions
    /\ sessions[last.arg[2]].video_id \notin {NoVideo, last.arg[3]}
    /\ Truthy(sessions[last.arg[2]].summary)
    /\ sessions[last.arg[2]].history # <<>>
    /\ ~IdleTooLong(sessions[last.arg[2]], now)

(* C28: no step of handle_question changes the cache.  The first step of a *)
(* language switch in a chat with a summary loaded sets the session's       *)
(* language and leaves video_id, transcript, summary and history; the send *)
(* of "Translating" changes no session; the return of translate_summary    *)
(* sets the summary of the session, if it is still live, to the            *)
(* translation and leaves its other content and its language; when         *)
(* translate_summary raises no session changes, and, unless another        *)
(* handler ran meanwhile, the language is the one asked for.               *)
C28_LanguageSwitchFrame ==
    [][\A r \in Tasks :
          (StepOf(r) /\ last'.op = "question")
            => /\ store' = store
               /\ tasks'[r].pc = "translating"
                    => /\ last'.arg[2] \in DOMAIN sessions
                       /\ Truthy(sessions[last'.arg[2]].summary)
                       /\ sessions'[last'.arg[2]] =
                             [sessions[last'.arg[2]] EXCEPT
                                 !.language = tasks'[r].lang, !.last_active = now]
               /\ tasks[r].pc = "translating" => sessions' = sessions
               /\ (tasks[r].pc = "in_translate" /\ tasks'[r].ext_failed)
                    => /\ sessions' = sessions
                       /\ (\A q \in Tasks \ {r} : tasks[q].pc = "idle")
                            => /\ sessions[last'.arg[2]].language = tasks[r].lang
                               /\ Truthy(sessions[last'.arg[2]].summary)
               /\ (/\ tasks[r].pc = "in_translate" /\ ~tasks'[r].ext_failed
                   /\ last'.arg[2] \in DOMAIN sessions
                   /\ ~IdleTooLong(sessions[last'.arg[2]], now))
                    => sessions'[last'.arg[2]] =
                          [sessions[last'.arg[2]] EXCEPT
                              !.summary = "s3", !.last_active = now]]_vars

(* The first message of the run asked for Hindi in the chat that has a     *)
(* video, a summary and a history: the translation failed, the language is *)
(* Hindi, the rest is as it was.                                           *)
C28_Witness ==
    /\ last.op = "question" /\ nops = 1
    /\ tasks[last.arg[1]].pc = "done" /\ tasks[last.arg[1]].ext_failed
    /\ last.arg[2] \in DOMAIN sessions
    /\ sessions[last.arg[2]].language = "Hindi"
    /\ sessions[last.arg[2]].summary = "s1"
    /\ sessions[last.arg[2]].video_id = 1
    /\ sessions[last.arg[2]].history = AnsweredHistory

(* C19: a handler that returned after the send of one of its status        *)
(* messages failed, without any of its external calls failing, has stored  *)
(* its result in the session.                                              *)
C19_DeliveryNeverAborts ==
    \A r \in Tasks :
        (tasks[r].pc = "done" /\ tasks[r].status_failed /\ ~tasks[r].ext_failed)
          => tasks[r].updated

(* Task q has something to run although task r is inside an external call: *)
(* it is free for the next message, or at an await of a handler of another *)
(* chat.                                                                   *)
CouldRun(q, r) ==
    \/ Free(q) /\ nops < MaxRequests
    \/ /\ tasks[q].pc \notin {"idle", "done"} \cup External
       /\ tasks[q].chat # tasks[r].chat

(* C20: while a handler is inside get_transcript or an llm call, the       *)
(* handlers of other chats can run.                                        *)
C20_OthersRun ==
    \A r \in Tasks :
        tasks[r].pc \in External
          => \A q \in Tasks \ {r} : CouldRun(q, r) => ENABLED Runs(q)

(***************************************************************************)
(* Properties of the message helpers, checked under SpecMsg.               *)
(***************************************************************************)
(* The lines c are consecutive lines of the text. *)
IsRun(c) == \A j \in 1..(Len(c) - 1) : c[j + 1] = c[j] + 1

(* C22: of a text longer than 4000 characters every message sent is a run  *)
(* of whole lines of at most 4000 characters, the messages follow the      *)
(* order of the text, and edit_or_send_long sends the first as an edit of  *)
(* the placeholder and the others as new messages.                         *)
C22_ChunkBudget ==
    StrLen(msg.text, WholeText(msg.text)) > MAX_MSG_LEN
      => \A j \in 1..Len(msg.sent) :
            /\ StrLen(msg.text, msg.sent[j].lines) <= MAX_MSG_LEN
            /\ msg.sent[j].lines # <<>> /\ IsRun(msg.sent[j].lines)
            /\ j > 1 => msg.sent[j - 1].lines[Len(msg.sent[j - 1].lines)]
                           < msg.sent[j].lines[1]
            /\ msg.fn = "edit_or_send_long"
                  => msg.sent[j].how = IF j = 1 THEN "edit" ELSE "reply"

====
